---- MODULE Spec2Model ----
(***************************************************************************)
(* Flight-dynamics core of the flight simulator: the main loop of          *)
(* gameDev/src/main.c, the control inputs of src/controls.c, the aircraft  *)
(* state of src/aircraft.c and the physics of src/physics.c (frame cache,  *)
(* thrust, lift, drag, RK4 velocity integration, fuel and mass).           *)
(*                                                                         *)
(* Numbers.  A C float is modelled as an exact rational <<n, d>> (d > 0,   *)
(* lowest terms), or as one of the IEEE special values: <<0, 0>> is NaN,   *)
(* <<1, 0>> is +Inf and <<-1, 0>> is -Inf (zero has no sign).  +, -, * and *)
(* / are exact on rationals and follow IEEE on the special values.  The    *)
(* irrational library                                                      *)
(* functions are modelled at reduced precision: sqrtf by a scaled integer  *)
(* square root (exact on axis-aligned vectors and on perfect squares),     *)
(* sinf/cosf by their Taylor polynomials rounded to 1/100, powf of the *)
(* atmosphere by a table over altitude bands.  The drag terms, the true    *)
(* airspeed and the Mach number are rounded to a fixed grid when they are  *)
(* stored in the frame cache, as a float store rounds to its mantissa.     *)
(***************************************************************************)
EXTENDS Integers, Sequences, FiniteSets, TLC

(***************************************************************************)
(* Bounds of the model                                                     *)
(***************************************************************************)
MaxTicks == 2
MaxKeys == 1

\* the aircraft data file has at most MaxLines lines, and the menu reads at
\* most MaxPresses keys before Enter
MaxLines == 3
MaxPresses == 3

\* the altitudes of the atmosphere specification are 0, 250, ... up to
\* 250 * MaxAltitudeStep metres
MaxAltitudeStep == 80

(***************************************************************************)
(* Rational arithmetic                                                     *)
(***************************************************************************)
Abs(i) == IF i < 0 THEN -i ELSE i

Sign(i) == IF i < 0 THEN -1 ELSE IF i > 0 THEN 1 ELSE 0

RECURSIVE GCD(_, _)
GCD(a, b) == IF b = 0 THEN a ELSE GCD(b, a % b)

\* the value of a one-element set; { e : x \in {v} } binds x to the value v
Only(S) == CHOOSE r \in S : TRUE

Reduce(n, d, g) == <<n \div g, d \div g>>

Rat(n, d) == IF n = 0 THEN <<0, 1>> ELSE Reduce(n, d, GCD(Abs(n), d))

I(n) == <<n, 1>>

Zero == <<0, 1>>

One == <<1, 1>>

NaN == <<0, 0>>

PosInf == <<1, 0>>

NegInf == <<-1, 0>>

\* isnan and isfinite of math.h
IsNaN(a) == a[1] = 0 /\ a[2] = 0

IsFinite(a) == a[2] # 0

RNeg(a) == <<-a[1], a[2]>>

RAddOver(a, b, g) ==
    Rat(a[1] * (b[2] \div g) + b[1] * (a[2] \div g), (a[2] \div g) * b[2])

\* a sum with a special operand: Inf + (-Inf) and every sum with NaN are NaN
RAddSpecial(a, b) ==
    IF a[2] # 0 THEN b
    ELSE IF b[2] # 0 THEN a
    ELSE IF a = b THEN a ELSE NaN

RAdd(a, b) ==
    IF a[2] = 0 \/ b[2] = 0 THEN RAddSpecial(a, b)
    ELSE RAddOver(a, b, GCD(a[2], b[2]))

RSub(a, b) == RAdd(a, RNeg(b))

RMulOver(a, b, g1, g2) ==
    <<(a[1] \div g1) * (b[1] \div g2), (a[2] \div g2) * (b[2] \div g1)>>

\* a product with a special operand: 0 * Inf and every product with NaN are
\* NaN, the others are infinite
RMul(a, b) ==
    IF a[2] = 0 \/ b[2] = 0 THEN <<Sign(a[1]) * Sign(b[1]), 0>>
    ELSE IF a[1] = 0 \/ b[1] = 0 THEN Zero
    ELSE RMulOver(a, b, GCD(Abs(a[1]), b[2]), GCD(Abs(b[1]), a[2]))

\* 1 / a: 1 / 0 is +Inf, 1 / Inf is 0
RInv(a) ==
    IF a[2] = 0 THEN (IF a[1] = 0 THEN NaN ELSE Zero)
    ELSE IF a[1] = 0 THEN PosInf
    ELSE IF a[1] < 0 THEN <<-a[2], -a[1]>> ELSE <<a[2], a[1]>>

RDiv(a, b) == RMul(a, RInv(b))

\* sign of n1/d1 - n2/d2, by comparing the continued fractions (no products)
RECURSIVE RCmp(_, _, _, _)
RCmp(n1, d1, n2, d2) ==
    LET q1 == n1 \div d1
        q2 == n2 \div d2
        r1 == n1 % d1
        r2 == n2 % d2
    IN  IF q1 < q2 THEN -1
        ELSE IF q1 > q2 THEN 1
        ELSE IF r1 = 0 /\ r2 = 0 THEN 0
        ELSE IF r1 = 0 THEN -1
        ELSE IF r2 = 0 THEN 1
        ELSE RCmp(d2, r2, d1, r1)

\* a < b and a <= b of C: false when an operand is NaN
RLt(a, b) ==
    IF a[2] = 0 \/ b[2] = 0
    THEN ~IsNaN(a) /\ ~IsNaN(b) /\ a # b /\ (a = NegInf \/ b = PosInf)
    ELSE RCmp(a[1], a[2], b[1], b[2]) < 0

RLe(a, b) == ~IsNaN(a) /\ ~IsNaN(b) /\ ~RLt(b, a)

RAbs(a) == <<Abs(a[1]), a[2]>>

RMin(a, b) == IF RLt(b, a) THEN b ELSE a

\* (int)x of C: truncation towards zero
Trunc(a) == Sign(a[1]) * (Abs(a[1]) \div a[2])

\* a rational whose denominator exceeds the limit is cut digit by digit
RECURSIVE ShrinkTo(_, _)
ShrinkTo(a, limit) ==
    IF a[2] <= limit THEN a
    ELSE ShrinkTo(<<a[1] \div 10, a[2] \div 10>>, limit)

\* quotient and remainder of r * m by d, for 0 <= r < d and m a power of
\* ten, one decimal digit at a time
MulDivDigit(h, d) == <<10 * h[1] + (10 * h[2]) \div d, (10 * h[2]) % d>>

RECURSIVE MulDiv(_, _, _)
MulDiv(r, m, d) ==
    IF m = 1 THEN <<0, r>> ELSE MulDivDigit(MulDiv(r, m \div 10, d), d)

\* q + f / d rounded to the nearest multiple of 1/den, f = <<digits, rest>>
RoundTo(q, f, d, den) ==
    Rat(q * den + f[1] + (IF f[2] >= d - f[2] THEN 1 ELSE 0), den)

QuantizeShrunk(s, den) ==
    RoundTo(s[1] \div s[2], MulDiv(s[1] % s[2], den, s[2]), s[2], den)

\* a float store at reduced precision: the nearest multiple of 1/den
Quantize(a, den) ==
    IF a[2] = 0 THEN a ELSE QuantizeShrunk(ShrinkTo(a, 200000000), den)

(***************************************************************************)
(* math.h at reduced precision                                             *)
(***************************************************************************)
RECURSIVE ISqrtBetween(_, _, _)
ISqrtBetween(n, lo, hi) ==
    IF lo >= hi THEN lo
    ELSE LET mid == (lo + hi + 1) \div 2
         IN  IF mid * mid <= n THEN ISqrtBetween(n, mid, hi)
             ELSE ISqrtBetween(n, lo, mid - 1)

ISqrt(n) == ISqrtBetween(n, 0, IF n < 46340 THEN n ELSE 46340)

IsSquare(n) == ISqrt(n) * ISqrt(n) = n

\* sqrtf: exact on squares of rationals, else rounded down to 1/100
SqrtfShrunk(s) ==
    Rat(ISqrt((s[1] \div s[2]) * 10000 + ((s[1] % s[2]) * 10000) \div s[2]), 100)

Sqrtf(a) ==
    IF a[2] = 0 THEN (IF a[1] > 0 THEN a ELSE NaN)
    ELSE IF a[1] < 0 THEN NaN
    ELSE IF IsSquare(a[1]) /\ IsSquare(a[2]) THEN Rat(ISqrt(a[1]), ISqrt(a[2]))
    ELSE SqrtfShrunk(ShrinkTo(a, 10000))

\* sinf, cosf, asinf, expf: Taylor polynomials of the argument rounded to
\* 1/100, result rounded to 1/100
SinfTaylor(x) == Quantize(RSub(x, RDiv(RMul(x, RMul(x, x)), I(6))), 100)

Sinf(a) == SinfTaylor(Quantize(a, 100))

CosfTaylor(x2) ==
    Quantize(RAdd(RSub(One, RDiv(x2, I(2))),
                  RDiv(Quantize(RMul(x2, x2), 10000), I(24))), 100)

Square(x) == RMul(x, x)

Cosf(a) == CosfTaylor(Square(Quantize(a, 100)))

AsinfTaylor(x) == Quantize(RAdd(x, RDiv(RMul(x, RMul(x, x)), I(6))), 100)

Asinf(a) == AsinfTaylor(Quantize(a, 100))

AtanfTaylor(x) == Quantize(RSub(x, RDiv(RMul(x, RMul(x, x)), I(3))), 100)

\* atanf: beyond 1 the angle is pi/2 less the angle of the reciprocal
AtanfBeyondOne(a) ==
    IF a[1] > 0 THEN RSub(<<157, 100>>, AtanfTaylor(Quantize(RInv(a), 100)))
    ELSE RSub(<<-157, 100>>, AtanfTaylor(Quantize(RInv(a), 100)))

Atanf(a) ==
    IF a[2] = 0
    THEN (IF IsNaN(a) THEN NaN
          ELSE IF a = PosInf THEN <<157, 100>> ELSE <<-157, 100>>)
    ELSE IF RLt(One, RAbs(a)) THEN AtanfBeyondOne(a)
    ELSE AtanfTaylor(Quantize(a, 100))

ExpfTaylor(x) == Quantize(RAdd(RAdd(One, x), RDiv(RMul(x, x), I(2))), 100)

Expf(a) ==
    IF a[2] = 0 THEN (IF a = NegInf THEN Zero ELSE a)
    ELSE ExpfTaylor(Quantize(a, 100))

PowfTable(i) ==
    IF i <= 0 THEN One
    ELSE IF i = 1 THEN <<1681, 1764>>
    ELSE <<400, 441>>

\* powf(T / T0, exponent) of getAirDensity, tabulated at the temperatures of
\* 0 m, 500 m and 1000 m (the nearest sample is used); the entries are
\* squares so that calculateTAS takes an exact root
PowfDensity(base, exponent) ==
    IF base[2] = 0 THEN (IF IsNaN(base) THEN NaN ELSE PosInf)
    ELSE PowfTable(Trunc(RAdd(RDiv(RSub(One, base), <<65, 5763>>), <<1, 2>>)))

(***************************************************************************)
(* Vectors (Vector3 of physics.h)                                          *)
(***************************************************************************)
Vec(x, y, z) == [x |-> x, y |-> y, z |-> z]

ZeroVec == Vec(Zero, Zero, Zero)

VAdd(a, b) == Vec(RAdd(a.x, b.x), RAdd(a.y, b.y), RAdd(a.z, b.z))

VSub(a, b) == Vec(RSub(a.x, b.x), RSub(a.y, b.y), RSub(a.z, b.z))

VScale(a, s) == Vec(RMul(a.x, s), RMul(a.y, s), RMul(a.z, s))

(***************************************************************************)
(* Program constants                                                       *)
(***************************************************************************)
GRAVITY == <<981, 100>>

PI == <<355, 113>>

C_D0 == <<1, 50>>

OEF == <<4, 5>>

M_DRAG_COEFFICIENT == <<4, 5>>

airDensityAtSeaLevel == <<49, 40>>

\* variant: the sea-level temperature rounded to whole kelvins
T0_rounded == <<288, 1>>

T0 == <<5763, 20>>

baseSpeedOfSoundFactor == <<34029, 100>>

\* variant: a ram recovery of 0.5
ramRecoveryFactor_half == <<1, 2>>

ramRecoveryFactor == <<3, 10>>

sensitivity == <<1, 50>>

throttleStep == <<1, 100>>

THROTTLE_LIMIT == <<101, 100>>

\* gameDev/src/main.c overwrites the fuel level after initAircraft
TestFuel == I(150)

(***************************************************************************)
(* Inputs: the aircraft records of the data file, the frame times and the  *)
(* keys of the input thread                                                *)
(***************************************************************************)
AircraftSet ==
    { [mass |-> I(1000), wingArea |-> I(20), wingSpan |-> I(10),
       thrust |-> 5000, afterburnerThrust |-> 8000, maxSpeed |-> I(1800),
       fuelCapacity |-> 150, fuelBurn |-> I(60), afterburnerFuelBurn |-> I(100),
       alpha |-> <<1, 2>>, kw |-> <<1, 5>>, Md |-> <<9, 10>>],
      [mass |-> I(2000), wingArea |-> I(30), wingSpan |-> I(12),
       thrust |-> 9000, afterburnerThrust |-> 0, maxSpeed |-> I(900),
       fuelCapacity |-> 400, fuelBurn |-> I(100), afterburnerFuelBurn |-> I(160),
       alpha |-> <<1, 2>>, kw |-> <<1, 5>>, Md |-> <<9, 10>>] }

DeltaTimes == { Zero, <<1, 2>>, I(2) }

Keys == { "w", "s", "a", "d", "q", "e", "z", "x", "other" }

\* arguments of the direct calculateThrust calls
PercentControls == { 0, 50, 99, 100, 101, 105 }

AirDensities == { <<49, 40>>, <<1681, 1440>>, <<10, 9>>, <<1, 2>> }

MachNumbers == { Zero, <<3, 10>>, One, I(2) }

\* aircraft records whose mass may be zero, and velocities that may be zero
DegenerateData ==
    { [a EXCEPT !.mass = IF zeroMass THEN Zero ELSE @] :
      a \in AircraftSet, zeroMass \in BOOLEAN }

DegenerateVelocities ==
    { Vec(Zero, Zero, Zero), Vec(I(100), Zero, Zero), Vec(I(100), I(-10), Zero) }

\* altitudes in metres: a grid, and the neighbours of the tropopause
Altitudes ==
    { I(250 * a) : a \in 0..MaxAltitudeStep }
        \cup { <<10999999, 1000>>, I(10999), <<11000001, 1000>>, I(11001) }

(***************************************************************************)
(* State                                                                   *)
(***************************************************************************)
VARIABLES
    aircraft,           \* AircraftState of main
    aircraftData,       \* AircraftData of main, loaded by getAircraftDataByName
    controls,           \* static AircraftControls controls of controls.c
    globalPhysicsData,  \* PhysicsData globalPhysicsData of physics.c
    dragConstants,      \* float alpha, kw, Md of physics.c
    simulationTime,     \* simulationTime of main
    running,            \* running of main
    rk,                 \* locals of the latest updatePhysics call
    ticks,              \* number of main-loop iterations so far
    keys,               \* number of keys read by the input thread so far
    threadPc,           \* statement each thread is at, and main's deltaTime
    probe               \* arguments and result of a direct calculateThrust call

vars == <<aircraft, aircraftData, controls, globalPhysicsData, dragConstants,
          simulationTime, running, rk, ticks, keys, threadPc, probe>>

(***************************************************************************)
(* controls.c                                                              *)
(***************************************************************************)
controlsInit ==
    [throttle |-> One, afterburner |-> FALSE,
     yawRate |-> <<1, 2>>, pitchRate |-> <<1, 2>>, rollRate |-> <<1, 2>>,
     yaw |-> Zero, pitch |-> Zero, roll |-> Zero]

\* the switch statement of adjustValues
adjustSwitch(c, key) ==
    CASE key = "w" -> [c EXCEPT !.pitch = RSub(@, sensitivity)]
      [] key = "s" -> [c EXCEPT !.pitch = RAdd(@, sensitivity)]
      [] key = "a" -> [c EXCEPT !.yaw = RSub(@, sensitivity)]
      [] key = "d" -> [c EXCEPT !.yaw = RAdd(@, sensitivity)]
      [] key = "q" -> [c EXCEPT !.roll = RSub(@, sensitivity)]
      [] key = "e" -> [c EXCEPT !.roll = RAdd(@, sensitivity)]
      [] key = "z" -> [c EXCEPT !.throttle = RAdd(@, throttleStep)]
      [] key = "x" -> [c EXCEPT !.throttle = RSub(@, throttleStep)]
      [] OTHER -> c

\* if (controls.throttle < 0) controls.throttle = 0;
clampThrottleLow(c) ==
    IF RLt(c.throttle, Zero) THEN [c EXCEPT !.throttle = Zero] ELSE c

\* variant: no upper clamp
clampThrottleHigh_none(c) == c

\* if (controls.throttle > 1.01f) controls.throttle = 1.01f;
clampThrottleHigh(c) ==
    IF RLt(THROTTLE_LIMIT, c.throttle)
    THEN [c EXCEPT !.throttle = THROTTLE_LIMIT] ELSE c

\* controls.afterburner = (fabs(controls.throttle - 1.01f) < tolerance);
setAfterburner(c) ==
    [c EXCEPT !.afterburner =
         RLt(RAbs(RSub(c.throttle, THROTTLE_LIMIT)), <<1, 10000>>)]

adjustValues(c, key) ==
    setAfterburner(clampThrottleHigh(clampThrottleLow(adjustSwitch(c, key))))

(***************************************************************************)
(* aircraft.c                                                              *)
(***************************************************************************)
getEmptyMassAndMaxFuel(data) ==
    [emptyMass |-> data.mass, maxFuel |-> I(data.fuelCapacity)]

initAircraft(data) ==
    LET em == getEmptyMassAndMaxFuel(data)
    IN  [x |-> Zero, y |-> I(500), z |-> Zero,
         vx |-> I(100), vy |-> Zero, vz |-> Zero,
         yaw |-> Zero, pitch |-> Zero, roll |-> Zero,
         AoA |-> Zero, hasAfterburner |-> FALSE,
         fuel |-> em.maxFuel,
         currentMass |-> RAdd(em.emptyMass, em.maxFuel),
         controls |-> controlsInit]

updateAircraftState(ac, deltaTime) ==
    [ac EXCEPT !.x = RAdd(@, RMul(ac.vx, deltaTime)),
               !.y = RAdd(@, RMul(ac.vy, deltaTime)),
               !.z = RAdd(@, RMul(ac.vz, deltaTime))]

(***************************************************************************)
(* physics.c: fuel and mass                                                *)
(***************************************************************************)
\* int afterburner = (throttle > 1.0f) ? 1 : 0; of getFuelBurnRate
FuelBurnAfterburner(throttle) == RLt(One, throttle)

getFuelBurnRate(data, throttle) ==
    IF IsNaN(throttle) THEN Zero
    ELSE
    LET afterburner == FuelBurnAfterburner(throttle)
    IN  IF afterburner
        THEN IF RLt(data.afterburnerFuelBurn, Zero) THEN Zero
             ELSE data.afterburnerFuelBurn
        ELSE IF RLt(data.fuelBurn, Zero) THEN Zero
             ELSE RMul(data.fuelBurn, throttle)

\* variant: the subtraction without the clamp at 0
updateFuelLevel_unclamped(fuelKg, deltaTime, fuelBurnRate) ==
    RSub(fuelKg, RMul(fuelBurnRate, deltaTime))

updateFuelLevel(fuelKg, deltaTime, fuelBurnRate) ==
    IF IsNaN(deltaTime) \/ IsNaN(fuelBurnRate) THEN fuelKg
    ELSE
    LET f == RSub(fuelKg, RMul(fuelBurnRate, deltaTime))
    IN  IF RLt(f, Zero) THEN Zero ELSE f

\* variant: the subtraction without the floor at the empty mass
updateAircraftMass_unfloored(ac, data, fuelBurnRate, deltaTime) ==
    [ac EXCEPT !.currentMass = RSub(@, RMul(fuelBurnRate, deltaTime))]

updateAircraftMass(ac, data, fuelBurnRate, deltaTime) ==
    IF IsNaN(fuelBurnRate) \/ IsNaN(deltaTime) THEN ac
    ELSE
    LET fuelBurned == RMul(fuelBurnRate, deltaTime)
        m == RSub(ac.currentMass, fuelBurned)
    IN  [ac EXCEPT !.currentMass = IF RLt(m, data.mass) THEN data.mass ELSE m]

(***************************************************************************)
(* physics.c: helpers                                                      *)
(***************************************************************************)
\* the components are stored to 1/100
vectorCross(a, b) ==
    Vec(Quantize(RSub(RMul(a.y, b.z), RMul(a.z, b.y)), 100),
        Quantize(RSub(RMul(a.z, b.x), RMul(a.x, b.z)), 100),
        Quantize(RSub(RMul(a.x, b.y), RMul(a.y, b.x)), 100))

RMax(a, b) == IF RLt(a, b) THEN b ELSE a

RMax3(a, b, c) == RMax(RMax(a, b), c)

SumOfSquares(x, y, z) == RAdd(RMul(x, x), RAdd(RMul(y, y), RMul(z, z)))

\* m is the largest component: the components are scaled by it and rounded
\* to 1/100 before they are squared
ScaledMagnitude(x, y, z, m) ==
    IF m = Zero \/ m[2] = 0 THEN m
    ELSE RMul(m, Sqrtf(SumOfSquares(Quantize(RDiv(x, m), 100),
                                    Quantize(RDiv(y, m), 100),
                                    Quantize(RDiv(z, m), 100))))

\* sqrtf(x*x + y*y + z*z)
calculateMagnitude(x, y, z) ==
    IF IsNaN(x) \/ IsNaN(y) \/ IsNaN(z) THEN Zero
    ELSE ScaledMagnitude(x, y, z, RMax3(RAbs(x), RAbs(y), RAbs(z)))

\* v / magnitude, each quotient rounded to 1/100
Direction(v, magnitude) ==
    Vec(Quantize(RDiv(v.x, magnitude), 100),
        Quantize(RDiv(v.y, magnitude), 100),
        Quantize(RDiv(v.z, magnitude), 100))

convertRadiansToDeg(radians) ==
    IF IsNaN(radians) THEN Zero ELSE RMul(radians, RDiv(I(180), PI))

convertKmhToMs(kmh) == IF IsNaN(kmh) THEN Zero ELSE RDiv(kmh, <<18, 5>>)

getUpVector(ac) ==
    LET cosYaw == Cosf(ac.yaw)
        sinYaw == Sinf(ac.yaw)
        cosPitch == Cosf(ac.pitch)
        sinPitch == Sinf(ac.pitch)
        cosRoll == Cosf(ac.roll)
        sinRoll == Sinf(ac.roll)
    IN  Vec(Quantize(RSub(RNeg(RMul(cosYaw, sinRoll)),
                          RMul(sinYaw, RMul(sinPitch, cosRoll))), 100),
            Quantize(RMul(cosPitch, cosRoll), 100),
            Quantize(RAdd(RNeg(RMul(sinYaw, sinRoll)),
                          RMul(cosYaw, RMul(sinPitch, cosRoll))), 100))

(***************************************************************************)
(* physics.c: atmosphere                                                   *)
(***************************************************************************)
getTropopause ==
    LET deltaT_isa == Zero
    IN  RAdd(I(11000), RMul(I(1000), RDiv(deltaT_isa, <<13, 2>>)))

getTemperatureKelvin(altitudeMeters, pd) ==
    IF IsNaN(altitudeMeters) THEN Zero
    ELSE
    IF RLt(pd.tropopauseAltitude, altitudeMeters) THEN <<4333, 20>>
    ELSE RSub(T0, RDiv(RMul(<<13, 2>>, altitudeMeters), I(1000)))

\* powf(T / T0, -(GRAVITY / (Kt * R))) of getPressureAtAltitude, exponent
\* 5.26, tabulated to 1/1000 at the temperatures of 0 m, 500 m and 1000 m
PowfPressure(base) ==
    IF base[2] = 0 THEN base
    ELSE IF RLe(<<199, 200>>, base) THEN One
    ELSE IF RLe(<<983, 1000>>, base) THEN <<942, 1000>>
    ELSE <<887, 1000>>

P0 == I(101325)

getPressureAtAltitude(pd) ==
    RMul(P0, PowfPressure(RDiv(pd.temperatureKelvin, T0)))

getAirDensity(altitude, pd) ==
    LET Kt == <<-13, 2000>>
        R == <<5741, 20>>
        rhoTop == <<3639, 10000>>
        T_trop == <<4333, 20>>
    IN  IF RLe(altitude, pd.tropopauseAltitude)
        THEN LET exponent == RSub(RNeg(RDiv(GRAVITY, RMul(Kt, R))), One)
             IN  RMul(airDensityAtSeaLevel,
                      PowfDensity(RDiv(pd.temperatureKelvin, T0), exponent))
        ELSE RMul(rhoTop,
                  Expf(RMul(RNeg(RDiv(GRAVITY, RMul(R, T_trop))),
                            RSub(altitude, pd.tropopauseAltitude))))

calculateSpeedOfSound(altitude, pd) ==
    IF IsNaN(altitude) THEN Zero
    ELSE
    LET gammaHeats == <<7, 5>>
        R == <<5741, 20>>
        T == pd.temperatureKelvin
    IN  IF RLt(pd.tropopauseAltitude, altitude)
        THEN Sqrtf(Quantize(RMul(gammaHeats, RMul(R, T)), 1))
        ELSE RMul(baseSpeedOfSoundFactor, Sqrtf(RDiv(T, T0)))

calculateTAS(pd) ==
    RDiv(pd.velocityMagnitude, Sqrtf(RDiv(pd.airDensity, airDensityAtSeaLevel)))

convertMsToMach(ms, pd) == RDiv(ms, pd.speedOfSound)

calculateAoA(ac) ==
    IF RLt(ac.vx, <<1, 1000000>>)
    THEN (IF RLt(Zero, ac.vz) THEN I(90) ELSE I(-90))
    ELSE Atanf(RDiv(ac.vz, ac.vx))

getFlightPathAngle(ac, pd) ==
    LET ratio == RDiv(ac.vy, pd.trueAirspeed)
        clamped == IF RLt(One, ratio) THEN One
                   ELSE IF RLt(ratio, I(-1)) THEN I(-1) ELSE ratio
    IN  Asinf(clamped)

(***************************************************************************)
(* physics.c: lift                                                         *)
(***************************************************************************)
\* variant: the dynamic pressure without its factor 0.5
calculateLiftCoefficient_noHalf(mass, ac, wingArea, pd) ==
    RDiv(RMul(mass, GRAVITY),
         RMul(pd.airDensity, RMul(RMul(pd.trueAirspeed, pd.trueAirspeed), wingArea)))

calculateLiftCoefficient(mass, ac, wingArea, pd) ==
    IF IsNaN(mass) \/ IsNaN(wingArea) THEN Zero
    ELSE
    LET TAS == pd.trueAirspeed
        numerator == RMul(mass, GRAVITY)
        denumerator == RMul(RMul(<<1, 2>>, pd.airDensity),
                            RMul(RMul(TAS, TAS), wingArea))
        tolerance == <<1, 1000000>>
    IN  IF RLt(I(5), RAbs(pd.yawDegrees)) /\ RLt(<<1, 10>>, RAbs(pd.pitchDegrees))
        THEN RDiv(numerator, RMul(denumerator, Cosf(pd.rollDegrees)))
        ELSE IF RLt(RAbs(ac.vy), tolerance)
             THEN RDiv(numerator, denumerator)
             ELSE RDiv(RMul(numerator, Cosf(pd.flightPathAngle)), denumerator)

calculateLift(wingArea, pd) ==
    IF IsNaN(wingArea) THEN Zero
    ELSE
    LET V == pd.trueAirspeed
        rho == pd.airDensity
    IN  RMul(RMul(RMul(<<1, 2>>, rho), RMul(V, V)),
             RMul(wingArea, pd.liftCoefficient))

\* cross1 of computeLiftForceComponents: cross(velocity, up) or its fallback
LiftCross(c) ==
    IF RLt(calculateMagnitude(c.x, c.y, c.z), <<1, 1000000>>)
    THEN Vec(Zero, Zero, One) ELSE c

\* liftDir of computeLiftForceComponents after it is normalised
LiftDirection(l, liftDirMag) ==
    IF RLt(liftDirMag, <<1, 1000000>>) THEN Vec(Zero, One, Zero)
    ELSE Direction(l, liftDirMag)

\* L = 0.5 * rho * V^2 * S * C_L
LiftForceMagnitude(airDensity, airSpeed, wingArea, coefficientLift) ==
    RMul(RMul(RMul(<<1, 2>>, airDensity), RMul(airSpeed, airSpeed)),
         RMul(wingArea, coefficientLift))

\* the returned vector: the components are stored to 1/100
LiftForceVector(liftDir, liftForceMagnitude) ==
    Vec(Quantize(RMul(liftDir.x, liftForceMagnitude), 100),
        Quantize(RMul(liftDir.y, liftForceMagnitude), 100),
        Quantize(RMul(liftDir.z, liftForceMagnitude), 100))

\* the bindings follow the locals of the function: velocity first, then the
\* unnormalised liftDir and its magnitude
computeLiftForceComponents(ac, wingArea, coefficientLift, pd) ==
    IF IsNaN(wingArea) \/ IsNaN(coefficientLift) THEN ZeroVec
    ELSE
    Only({ Only({ Only({
        LiftForceVector(LiftDirection(l, liftDirMag),
                        LiftForceMagnitude(pd.airDensity,
                            calculateMagnitude(velocity.x, velocity.y, velocity.z),
                            wingArea, coefficientLift)) :
          liftDirMag \in { calculateMagnitude(l.x, l.y, l.z) } }) :
          l \in { vectorCross(LiftCross(vectorCross(velocity, pd.upVector)),
                              velocity) } }) :
          velocity \in { Vec(Quantize(RMul(pd.trueAirspeed,
                                         RMul(Cosf(ac.yaw), Cosf(ac.pitch))), 100),
                             Quantize(RMul(pd.trueAirspeed, Sinf(ac.pitch)), 100),
                             Quantize(RMul(pd.trueAirspeed,
                                         RMul(Cosf(ac.pitch), Sinf(ac.yaw))), 100)) } })

(***************************************************************************)
(* physics.c: drag                                                         *)
(***************************************************************************)
calculateAspectRatio(wingspan, wingArea) ==
    IF IsNaN(wingspan) \/ IsNaN(wingArea) THEN Zero
    ELSE
    IF RLt(wingArea, <<1, 1000000>>) THEN Zero
    ELSE RDiv(RMul(wingspan, wingspan), wingArea)

calculateDragCoefficient(speed, maxSpeed, C_d0, pd, dc) ==
    IF IsNaN(maxSpeed) \/ IsNaN(C_d0) THEN Zero
    ELSE
    LET mach == Quantize(RDiv(speed, pd.speedOfSound), 10000)
        ratio == RDiv(speed, maxSpeed)
        base == RAdd(C_d0, RMul(<<1, 20>>, RMul(ratio, ratio)))
    IN  IF RLt(mach, <<4, 5>>) THEN base
        ELSE IF RLt(mach, <<6, 5>>)
             THEN RAdd(base, RMul(dc.alpha, RMul(RSub(mach, One), RSub(mach, One))))
             ELSE RAdd(C_d0, RMul(dc.kw, RMul(RSub(mach, dc.Md), RSub(mach, dc.Md))))

\* 0.5 * rho * speed^2 (the dynamic pressure), rounded to 1 Pa
DynamicPressure(airDensity, speed) ==
    Quantize(RMul(RMul(<<1, 2>>, airDensity), RMul(speed, speed)), 1)

calculateParasiticDrag(C_d, airDensity, speed, wingArea) ==
    IF IsNaN(C_d) \/ IsNaN(airDensity) \/ IsNaN(wingArea) THEN Zero
    ELSE
    RMul(RMul(RMul(C_d, DynamicPressure(airDensity, speed)), wingArea),
         M_DRAG_COEFFICIENT)

\* the quotient C_L^2 / (PI * AR * OEF) is rounded to 1/100000
calculateInducedDrag(liftCoefficient, aspectRatio, airDensity, wingArea, speed) ==
    IF IsNaN(liftCoefficient) \/ IsNaN(aspectRatio) \/ IsNaN(airDensity)
           \/ IsNaN(wingArea) THEN Zero
    ELSE
    IF RLt(speed, <<1, 10>>) THEN Zero
    ELSE LET cl == Quantize(liftCoefficient, 1000)
             k == Quantize(RDiv(RMul(cl, cl), RMul(RMul(PI, aspectRatio), OEF)),
                           100000)
         IN  RMul(RMul(RMul(DynamicPressure(airDensity, speed), wingArea), k),
                  M_DRAG_COEFFICIENT)

calculateDragDivergenceAroundMach(speed, pd, dc) ==
    LET mach == Quantize(RDiv(speed, pd.speedOfSound), 10000)
        Cdw == IF RLt(dc.Md, mach)
               THEN RMul(RMul(C_D0, dc.kw), RMul(RSub(mach, dc.Md), RSub(mach, dc.Md)))
               ELSE Zero
    IN  RMul(Cdw, M_DRAG_COEFFICIENT)

(***************************************************************************)
(* physics.c: thrust                                                       *)
(***************************************************************************)
\* variant: the result without the cap at the rated thrust
calculateThrust_uncapped(thrust, afterburnerThrust, percentControl, pd) ==
    LET pc == IF percentControl > 100 THEN 100 ELSE percentControl
        usedThrust == IF percentControl > 100 THEN afterburnerThrust ELSE thrust
        derateFactor == RDiv(pd.airDensity, airDensityAtSeaLevel)
        calculatedThrust == RMul(RDiv(I(pc), I(100)), RMul(I(usedThrust), derateFactor))
    IN  RMul(calculatedThrust, RAdd(One, RMul(ramRecoveryFactor, pd.machNumber)))

\* afterBurnerOn of calculateThrust
ThrustAfterBurnerOn(percentControl) == percentControl > 100

calculateThrust(thrust, afterburnerThrust, percentControl, pd) ==
    LET afterBurnerOn == ThrustAfterBurnerOn(percentControl)
        pc == IF percentControl > 100 THEN 100 ELSE percentControl
        usedThrust == IF afterBurnerOn THEN afterburnerThrust ELSE thrust
        derateFactor == RDiv(pd.airDensity, airDensityAtSeaLevel)
        calculatedThrust == RMul(RDiv(I(pc), I(100)), RMul(I(usedThrust), derateFactor))
        speedModifiedThrust ==
            RMul(calculatedThrust, RAdd(One, RMul(ramRecoveryFactor, pd.machNumber)))
    IN  IF RLt(airDensityAtSeaLevel, <<1, 1000000>>) THEN Zero
        ELSE IF RLt(I(usedThrust), speedModifiedThrust) THEN I(usedThrust)
             ELSE speedModifiedThrust

(***************************************************************************)
(* weather.c                                                               *)
(***************************************************************************)
\* BASE_WIND_SPEED + ALTITUDE_FACTOR * altitude and the turbulence of
\* TURBULENCE_AMPLITUDE at TURBULENCE_FREQUENCY, stored to 1/100 m/s
getWindVector(altitude, time) ==
    Vec(Quantize(RAdd(RAdd(I(2), RMul(<<1, 1000>>, altitude)),
                      RMul(I(2), Sinf(RMul(<<1, 2>>, time)))), 100),
        Zero,
        Quantize(RMul(I(2), Cosf(RMul(<<1, 2>>, time))), 100))

(***************************************************************************)
(* physics.c: the frame cache                                              *)
(***************************************************************************)
\* PhysicsData globalPhysicsData of physics.c is zero-initialised
InitPhysicsData ==
    [tropopauseAltitude |-> Zero, airDensity |-> Zero, temperatureKelvin |-> Zero,
     speedOfSound |-> Zero, pressure |-> Zero, flightPathAngle |-> Zero,
     liftCoefficient |-> Zero, aspectRatio |-> Zero, dragCoefficient |-> Zero,
     parasiticDrag |-> Zero, inducedDrag |-> Zero, totalDrag |-> Zero,
     dragDivergence |-> Zero, thrust |-> Zero, trueAirspeed |-> Zero,
     machNumber |-> Zero, angleOfAttack |-> Zero, windVector |-> ZeroVec,
     upVector |-> ZeroVec, liftForce |-> ZeroVec,
     dragForce |-> ZeroVec, pitchDegrees |-> Zero, yawDegrees |-> Zero,
     rollDegrees |-> Zero, velocityMagnitude |-> Zero,
     lastSimulationTime |-> Zero]

\* Each section of updatePhysicsData binds the cache after every assignment;
\* the first assignment is the innermost binding.
\* 1. Atmosphere
updateAtmosphere(physics, altitude) ==
    Only({ [p3 EXCEPT !.speedOfSound = calculateSpeedOfSound(altitude, p3)] :
      p3 \in { [p2 EXCEPT !.airDensity = getAirDensity(altitude, p2)] :
      p2 \in { [p1 EXCEPT !.temperatureKelvin = getTemperatureKelvin(altitude, p1)] :
      p1 \in { [physics EXCEPT !.tropopauseAltitude = getTropopause] } } } })

\* variant: the Mach number is computed before the true airspeed it reads
updateFlightParameters_machFirst(physics, ac) ==
    Only({ [p3 EXCEPT !.flightPathAngle = getFlightPathAngle(ac, p3),
                      !.angleOfAttack = calculateAoA(ac)] :
      p3 \in { [p2 EXCEPT !.trueAirspeed = Quantize(calculateTAS(p2), 1)] :
      p2 \in { [p1 EXCEPT !.machNumber =
                    Quantize(convertMsToMach(p1.trueAirspeed, p1), 100)] :
      p1 \in { [physics EXCEPT !.velocityMagnitude =
                    calculateMagnitude(ac.vx, ac.vy, ac.vz)] } } } })

\* 2. Flight parameters
updateFlightParameters(physics, ac) ==
    Only({ [p3 EXCEPT !.flightPathAngle = getFlightPathAngle(ac, p3),
                      !.angleOfAttack = calculateAoA(ac)] :
      p3 \in { [p2 EXCEPT !.machNumber =
                    Quantize(convertMsToMach(p2.trueAirspeed, p2), 100)] :
      p2 \in { [p1 EXCEPT !.trueAirspeed = Quantize(calculateTAS(p1), 1)] :
      p1 \in { [physics EXCEPT !.velocityMagnitude =
                    calculateMagnitude(ac.vx, ac.vy, ac.vz)] } } } })

\* 3. Orientation and 4. Orientation vectors
updateOrientation(physics, ac, altitude, simTime) ==
    [physics EXCEPT !.pitchDegrees = convertRadiansToDeg(ac.pitch),
                    !.yawDegrees = convertRadiansToDeg(ac.yaw),
                    !.rollDegrees = convertRadiansToDeg(ac.roll),
                    !.windVector = getWindVector(altitude, simTime),
                    !.upVector = getUpVector(ac)]

\* 5. Aerodynamics: lift
updateLift(physics, ac, data) ==
    Only({ [p2 EXCEPT !.liftForce =
                computeLiftForceComponents(ac, data.wingArea,
                                           p2.liftCoefficient, p2)] :
      p2 \in { [p1 EXCEPT !.aspectRatio =
                    calculateAspectRatio(data.wingSpan, data.wingArea)] :
      p1 \in { [physics EXCEPT !.liftCoefficient =
                    calculateLiftCoefficient(data.mass, ac, data.wingArea,
                                             physics)] } } })

\* 6. Aerodynamics: drag
updateDrag(physics, data, dc) ==
    Only({ [p4 EXCEPT !.totalDrag =
                RAdd(RAdd(p4.parasiticDrag, p4.inducedDrag), p4.dragDivergence)] :
      p4 \in { [p3 EXCEPT !.dragDivergence =
                    Quantize(calculateDragDivergenceAroundMach(p3.trueAirspeed,
                                                               p3, dc), 1)] :
      p3 \in { [p2 EXCEPT !.inducedDrag =
                    Quantize(calculateInducedDrag(p2.liftCoefficient,
                                 p2.aspectRatio, p2.airDensity, data.wingArea,
                                 p2.trueAirspeed), 1)] :
      p2 \in { [p1 EXCEPT !.parasiticDrag =
                    Quantize(calculateParasiticDrag(p1.dragCoefficient,
                                 p1.airDensity, p1.trueAirspeed, data.wingArea), 1)] :
      p1 \in { [physics EXCEPT !.dragCoefficient =
                    Quantize(calculateDragCoefficient(physics.trueAirspeed,
                                 convertKmhToMs(data.maxSpeed), C_D0, physics, dc),
                             10000)] } } } } })

\* 7. Engine, 8. the placeholder for the drag force, and the time stamp
updateEngine(physics, ac, data, simTime) ==
    [physics EXCEPT !.thrust =
                        calculateThrust(data.thrust, data.afterburnerThrust,
                                        Trunc(RMul(ac.controls.throttle, I(100))),
                                        physics),
                    !.dragForce = ZeroVec,
                    !.lastSimulationTime = simTime]

updatePhysicsData(physics, altitude, ac, data, simTime, dc) ==
    IF IsNaN(altitude) \/ IsNaN(simTime) THEN physics
    ELSE
    updateEngine(
        updateDrag(
            updateLift(
                updateOrientation(
                    updateFlightParameters(updateAtmosphere(physics, altitude), ac),
                    ac, altitude, simTime),
                ac, data),
            data, dc),
        ac, data, simTime)

(***************************************************************************)
(* physics.c: the integrator                                               *)
(***************************************************************************)
\* ax and ay are stored to 1/100 m/s^2
updateVelocity(ac, deltaTime, data, pd) ==
    LET T == pd.thrust
        D == pd.totalDrag
        ax == Quantize(RDiv(RSub(T, D), data.mass), 100)
        L == calculateLift(data.wingArea, pd)
        W == RMul(GRAVITY, data.mass)
        ay == Quantize(RDiv(RSub(L, W), data.mass), 100)
    IN  [ac EXCEPT !.vx = RAdd(@, RMul(ax, deltaTime)),
                   !.vy = RAdd(@, RMul(ay, deltaTime))]

\* relVelocity of calculateTotalDrag: the TAS vector less the wind vector
WindRelativeVelocity(ac, pd) ==
    VSub(Vec(Quantize(RMul(pd.trueAirspeed,
                           RMul(Cosf(ac.yaw), Cosf(ac.pitch))), 100),
             Quantize(RMul(pd.trueAirspeed, Sinf(ac.pitch)), 100),
             Quantize(RMul(pd.trueAirspeed,
                           RMul(Cosf(ac.pitch), Sinf(ac.yaw))), 100)),
         pd.windVector)

\* relativeSpeed of computeAcceleration: sqrtf of the sum of squares, without
\* the NaN test of calculateMagnitude
RelativeSpeed(velocity) ==
    IF IsNaN(velocity.x) \/ IsNaN(velocity.y) \/ IsNaN(velocity.z) THEN NaN
    ELSE calculateMagnitude(velocity.x, velocity.y, velocity.z)

\* dragForce of computeAcceleration
DragForce(velocity, relativeSpeed, totalDrag) ==
    IF RLt(relativeSpeed, <<1, 10000>>) THEN ZeroVec
    ELSE VScale(Direction(velocity, relativeSpeed), RNeg(totalDrag))

\* thrustForce of computeAcceleration
ThrustForce(ac, thrustMagnitude) ==
    IF RLe(ac.fuel, Zero) THEN ZeroVec
    ELSE Vec(RMul(thrustMagnitude, RMul(Cosf(ac.pitch), Cosf(ac.yaw))),
             RMul(thrustMagnitude, Sinf(ac.pitch)),
             RMul(thrustMagnitude, RMul(Cosf(ac.pitch), Sinf(ac.yaw))))

\* netForce / mass, stored to 1/100 m/s^2
Acceleration(netForce, mass) ==
    Vec(Quantize(RDiv(netForce.x, mass), 100),
        Quantize(RDiv(netForce.y, mass), 100),
        Quantize(RDiv(netForce.z, mass), 100))

\* variant: the thrust force is zeroed but the cached thrust is left alone
computeAcceleration_keepsCachedThrust(velocity, ac, data, pd) ==
    Only({ [acceleration |->
                Acceleration(VAdd(VAdd(Vec(Zero, RNeg(RMul(GRAVITY, data.mass)), Zero),
                                       pd.liftForce),
                                  VAdd(dragForce, thrustForce)), data.mass),
            thrustForce |-> thrustForce,
            dragForce |-> dragForce,
            physicsData |-> pd] :
           dragForce \in { DragForce(velocity, RelativeSpeed(velocity),
                                     pd.totalDrag) },
           thrustForce \in { ThrustForce(ac, pd.thrust) } })

\* variant: the net force is divided by the current mass of the aircraft
computeAcceleration_currentMass(velocity, ac, data, pd) ==
    Only({ [acceleration |->
                Acceleration(VAdd(VAdd(Vec(Zero, RNeg(RMul(GRAVITY, data.mass)), Zero),
                                       pd.liftForce),
                                  VAdd(dragForce, thrustForce)), ac.currentMass),
            thrustForce |-> thrustForce,
            dragForce |-> dragForce,
            physicsData |-> IF RLe(ac.fuel, Zero)
                            THEN [pd EXCEPT !.thrust = Zero] ELSE pd] :
           dragForce \in { DragForce(velocity, RelativeSpeed(velocity),
                                     pd.totalDrag) },
           thrustForce \in { ThrustForce(ac, pd.thrust) } })

\* returns the acceleration, the thrust force of this evaluation and the
\* frame cache, whose thrust field the function clears when the fuel is out
computeAcceleration(velocity, ac, data, pd) ==
    LET mass == data.mass
        gravityForce == Vec(Zero, RNeg(RMul(GRAVITY, mass)), Zero)
        liftForce == pd.liftForce
        relativeVelocity == velocity
        totalDrag == pd.totalDrag
        thrustMagnitude == pd.thrust
    IN  Only({ [acceleration |->
                    Acceleration(VAdd(VAdd(gravityForce, liftForce),
                                      VAdd(dragForce, thrustForce)), mass),
                thrustForce |-> thrustForce,
                dragForce |-> dragForce,
                physicsData |-> IF RLe(ac.fuel, Zero)
                                THEN [pd EXCEPT !.thrust = Zero] ELSE pd] :
               dragForce \in { DragForce(relativeVelocity,
                                         RelativeSpeed(velocity), totalDrag) },
               thrustForce \in { ThrustForce(ac, thrustMagnitude) } })

Velocity(ac) == Vec(ac.vx, ac.vy, ac.vz)

\* variant: a stage that sees the fuel as already burnt
Stage_fuelBurntFirst(ac, v0, k, step, data, pd) ==
    LET t0 == [ac EXCEPT !.vx = RAdd(v0.x, RMul(k.x, step)),
                         !.vy = RAdd(v0.y, RMul(k.y, step)),
                         !.vz = RAdd(v0.z, RMul(k.z, step)),
                         !.fuel = Zero]
        t1 == updateVelocity(t0, step, data, pd)
    IN  [eval |-> computeAcceleration(Velocity(t1), t1, data, pd),
         velocity |-> Velocity(t1),
         velocityThrust |-> pd.thrust]

\* one RK4 stage: the scratch copy of the aircraft is set to v0 + k * step,
\* passed through updateVelocity and then through computeAcceleration
Stage(ac, v0, k, step, data, pd) ==
    LET t0 == [ac EXCEPT !.vx = RAdd(v0.x, RMul(k.x, step)),
                         !.vy = RAdd(v0.y, RMul(k.y, step)),
                         !.vz = RAdd(v0.z, RMul(k.z, step))]
        t1 == updateVelocity(t0, step, data, pd)
    IN  [eval |-> computeAcceleration(Velocity(t1), t1, data, pd),
         velocity |-> Velocity(t1),
         velocityThrust |-> pd.thrust]

\* the fuel and mass update at the end of updatePhysics
BurnFuel(ac, deltaTime, data) ==
    LET fuelBurnRate == getFuelBurnRate(data, ac.controls.throttle)
        a3 == [ac EXCEPT !.fuel = updateFuelLevel(@, deltaTime, fuelBurnRate)]
    IN  updateAircraftMass(a3, data, fuelBurnRate, deltaTime)

\* variant: the final update integrates the position as well
FinalVelocity_movesAircraft(ac, deltaTime, k1, k2, k3, k4) ==
    LET sum == VAdd(VAdd(k1, VScale(k2, I(2))), VAdd(VScale(k3, I(2)), k4))
    IN  [ac EXCEPT !.vx = RAdd(@, RMul(sum.x, RDiv(deltaTime, I(6)))),
                   !.vy = RAdd(@, RMul(sum.y, RDiv(deltaTime, I(6)))),
                   !.vz = RAdd(@, RMul(sum.z, RDiv(deltaTime, I(6)))),
                   !.x = RAdd(@, RMul(ac.vx, deltaTime)),
                   !.y = RAdd(@, RMul(ac.vy, deltaTime)),
                   !.z = RAdd(@, RMul(ac.vz, deltaTime))]

\* the final velocity update of updatePhysics
FinalVelocity(ac, deltaTime, k1, k2, k3, k4) ==
    LET sum == VAdd(VAdd(k1, VScale(k2, I(2))), VAdd(VScale(k3, I(2)), k4))
    IN  [ac EXCEPT !.vx = RAdd(@, RMul(sum.x, RDiv(deltaTime, I(6)))),
                   !.vy = RAdd(@, RMul(sum.y, RDiv(deltaTime, I(6)))),
                   !.vz = RAdd(@, RMul(sum.z, RDiv(deltaTime, I(6))))]

\* variant: the cache is rebuilt on every call
NeedsRefresh_always(gpd, simTime) == TRUE

NeedsRefresh(gpd, simTime) ==
    RLt(<<1, 1000000>>, RAbs(RSub(gpd.lastSimulationTime, simTime)))

\* the outermost binding (the last line) is the first step of the code: the
\* cache g0, then the four evaluations e1, s2, s3, s4
updatePhysics(ac, deltaTime, simTime, data, gpd, dc) ==
    LET refresh == NeedsRefresh(gpd, simTime)
        v0 == Velocity(ac)
        half == RMul(deltaTime, <<1, 2>>)
    IN  Only(UNION { UNION { UNION { UNION { UNION {
          { [aircraft |->
                 BurnFuel(updateVelocity(
                              FinalVelocity(ac, deltaTime, e1.acceleration,
                                            s2.eval.acceleration,
                                            s3.eval.acceleration,
                                            s4.eval.acceleration),
                              deltaTime, data, s4.eval.physicsData),
                          deltaTime, data),
             physicsData |-> s4.eval.physicsData,
             locals |-> [called |-> TRUE, refreshed |-> refresh,
                         deltaTime |-> deltaTime, fuelAtEntry |-> ac.fuel,
                         massAtEntry |-> ac.currentMass,
                         aircraftAtEntry |-> ac,
                         cacheAtK1 |-> g0,
                         thrustAtK1 |-> g0.thrust, v0 |-> v0,
                         k1 |-> e1.acceleration, k2 |-> s2.eval.acceleration,
                         k3 |-> s3.eval.acceleration, k4 |-> s4.eval.acceleration,
                         thrustForce |-> <<e1.thrustForce, s2.eval.thrustForce,
                                          s3.eval.thrustForce, s4.eval.thrustForce>>,
                         dragForce |-> <<e1.dragForce, s2.eval.dragForce,
                                         s3.eval.dragForce, s4.eval.dragForce>>,
                         stageVelocity |-> <<s2.velocity, s3.velocity,
                                             s4.velocity>>,
                         velocityThrust |-> <<s2.velocityThrust, s3.velocityThrust,
                                             s4.velocityThrust,
                                             s4.eval.physicsData.thrust>>]] }
          : s4 \in { Stage(ac, v0, s3.eval.acceleration, deltaTime, data,
                           s3.eval.physicsData) } }
          : s3 \in { Stage(ac, v0, s2.eval.acceleration, half, data,
                           s2.eval.physicsData) } }
          : s2 \in { Stage(ac, v0, e1.acceleration, half, data, e1.physicsData) } }
          : e1 \in { computeAcceleration(v0, ac, data, g0) } }
          : g0 \in { IF refresh
                     THEN [updatePhysicsData(gpd, ac.y, ac, data, simTime, dc)
                               EXCEPT !.lastSimulationTime = simTime]
                     ELSE gpd } })

\* both threads at the head of their loops
AtLoopHead == [input |-> "read", main |-> "copy", deltaTime |-> Zero]

NoCall ==
    [called |-> FALSE, refreshed |-> FALSE, deltaTime |-> Zero,
     fuelAtEntry |-> Zero, massAtEntry |-> Zero, aircraftAtEntry |-> <<>>,
     cacheAtK1 |-> InitPhysicsData, thrustAtK1 |-> Zero,
     v0 |-> ZeroVec, k1 |-> ZeroVec, k2 |-> ZeroVec, k3 |-> ZeroVec, k4 |-> ZeroVec,
     thrustForce |-> <<ZeroVec, ZeroVec, ZeroVec, ZeroVec>>,
     dragForce |-> <<ZeroVec, ZeroVec, ZeroVec, ZeroVec>>,
     stageVelocity |-> <<ZeroVec, ZeroVec, ZeroVec>>,
     velocityThrust |-> <<Zero, Zero, Zero, Zero>>]

NoProbe ==
    [percentControl |-> 0, airDensity |-> Zero, machNumber |-> Zero,
     applied |-> FALSE, result |-> Zero]

(***************************************************************************)
(* gameDev/src/main.c                                                      *)
(***************************************************************************)
Init ==
    /\ aircraftData \in AircraftSet
    /\ aircraft = [initAircraft(aircraftData) EXCEPT
                       !.fuel = TestFuel,
                       !.hasAfterburner = (aircraftData.afterburnerThrust # 0)]
    /\ controls = controlsInit
    /\ globalPhysicsData = InitPhysicsData
    /\ dragConstants = [alpha |-> Zero, kw |-> Zero, Md |-> Zero]
    /\ simulationTime = Zero
    /\ running = TRUE
    /\ rk = NoCall
    /\ ticks = 0
    /\ keys = 0
    /\ threadPc = AtLoopHead
    /\ probe = NoProbe

\* the copy of the shared controls into the aircraft state
CopyControls_none(ac, c) == ac

CopyControls(ac, c) ==
    [ac EXCEPT !.yaw = c.yaw,
               !.pitch = c.pitch,
               !.roll = c.roll,
               !.controls.throttle = c.throttle,
               !.controls.afterburner = RLt(One, c.throttle)]

\* one iteration of the main loop; quit stands for an SDL_QUIT or escape
\* event polled in this iteration
Tick(deltaTime) ==
    /\ running
    /\ ticks < MaxTicks
    /\ LET crashed == RLe(aircraft.y, Zero)
           t == RAdd(simulationTime, deltaTime)
           a0 == CopyControls(aircraft, controls)
       IN  \E r \in { updatePhysics(a0, deltaTime, t, aircraftData,
                                    globalPhysicsData, dragConstants) } :
               /\ simulationTime' = t
               /\ aircraft' = updateAircraftState(r.aircraft, deltaTime)
               /\ globalPhysicsData' = r.physicsData
               /\ rk' = r.locals
               /\ \E quit \in BOOLEAN : running' = (~crashed /\ ~quit)
    /\ ticks' = ticks + 1
    /\ UNCHANGED <<aircraftData, controls, dragConstants, keys, threadPc,
                   probe>>

\* the input thread reads one key
InputKey(key) ==
    /\ running
    /\ keys < MaxKeys
    /\ controls' = adjustValues(controls, key)
    /\ keys' = keys + 1
    /\ UNCHANGED <<aircraft, aircraftData, globalPhysicsData, dragConstants,
                   simulationTime, running, rk, ticks, threadPc, probe>>

Next ==
    \/ \E deltaTime \in DeltaTimes : Tick(deltaTime)
    \/ \E key \in Keys : InputKey(key)

Spec == Init /\ [][Next]_vars

(***************************************************************************)
(* calculateThrust on its own: the arguments are drawn at the start and    *)
(* the function is applied once                                            *)
(***************************************************************************)
InitThrust ==
    /\ aircraftData \in AircraftSet
    /\ aircraft = initAircraft(aircraftData)
    /\ controls = controlsInit
    /\ globalPhysicsData = InitPhysicsData
    /\ dragConstants = [alpha |-> Zero, kw |-> Zero, Md |-> Zero]
    /\ simulationTime = Zero
    /\ running = TRUE
    /\ rk = NoCall
    /\ ticks = 0
    /\ keys = 0
    /\ threadPc = AtLoopHead
    /\ probe \in { [percentControl |-> p, airDensity |-> d, machNumber |-> m,
                    applied |-> FALSE, result |-> Zero] :
                   p \in PercentControls, d \in AirDensities, m \in MachNumbers }

ApplyThrust ==
    /\ ~probe.applied
    /\ probe' = [probe EXCEPT
                     !.applied = TRUE,
                     !.result = calculateThrust(
                                    aircraftData.thrust, aircraftData.afterburnerThrust,
                                    probe.percentControl,
                                    [globalPhysicsData EXCEPT
                                         !.airDensity = probe.airDensity,
                                         !.machNumber = probe.machNumber])]
    /\ UNCHANGED <<aircraft, aircraftData, controls, globalPhysicsData,
                   dragConstants, simulationTime, running, rk, ticks, keys,
                   threadPc>>

NextThrust == ApplyThrust

SpecThrust == InitThrust /\ [][NextThrust]_vars

(***************************************************************************)
(* The atmosphere functions on their own: the altitude is drawn at the     *)
(* start and the functions are applied once, on a cache whose tropopause   *)
(* updatePhysicsData has already assigned                                  *)
(***************************************************************************)
InitAtmosphere ==
    /\ aircraftData \in AircraftSet
    /\ aircraft = initAircraft(aircraftData)
    /\ controls = controlsInit
    /\ globalPhysicsData = InitPhysicsData
    /\ dragConstants = [alpha |-> Zero, kw |-> Zero, Md |-> Zero]
    /\ simulationTime = Zero
    /\ running = TRUE
    /\ rk = NoCall
    /\ ticks = 0
    /\ keys = 0
    /\ threadPc = AtLoopHead
    /\ probe \in { [altitude |-> a, applied |-> FALSE, temperatureKelvin |-> Zero] :
                   a \in Altitudes }

ApplyAtmosphere ==
    /\ ~probe.applied
    /\ probe' = [probe EXCEPT
                     !.applied = TRUE,
                     !.temperatureKelvin =
                         getTemperatureKelvin(
                             probe.altitude,
                             [globalPhysicsData EXCEPT
                                  !.tropopauseAltitude = getTropopause])]
    /\ UNCHANGED <<aircraft, aircraftData, controls, globalPhysicsData,
                   dragConstants, simulationTime, running, rk, ticks, keys,
                   threadPc>>

NextAtmosphere == ApplyAtmosphere

SpecAtmosphere == InitAtmosphere /\ [][NextAtmosphere]_vars


(***************************************************************************)
(* NULL arguments: a physics function and a non-empty set of its required  *)
(* pointer parameters that are NULL are drawn at the start, and the        *)
(* function is called once                                                 *)
(***************************************************************************)
\* the pointer parameters each function of physics.c dereferences
\* (calculateTotalDrag tests its five output pointers itself and skips those
\* that are NULL, so they are not required)
RequiredPointers ==
    [fillConstants |-> {"data"},
     getAirDensity |-> {"physicsData"},
     calculateLAV |-> {"aircraft"},
     calculateAoA |-> {"aircraft"},
     getFlightPathAngle |-> {"aircraft", "physicsData"},
     calculateLiftCoefficient |-> {"aircraft", "physicsData"},
     calculateLift |-> {"physicsData"},
     getUnitVector |-> {"aircraft", "physicsData"},
     getRightWingDirection |-> {"aircraft", "physicsData"},
     computeLiftForceComponents |-> {"aircraft", "physicsData"},
     calculateDragCoefficient |-> {"physicsData"},
     calculateDragDivergenceAroundMach |-> {"physicsData"},
     calculateTotalDrag |-> {"aircraft", "physicsData"},
     calculateThrust |-> {"physicsData"},
     updateVelocity |-> {"aircraft", "data", "physicsData"},
     getTemperatureKelvin |-> {"physicsData"},
     getPressureAtAltitude |-> {"physicsData"},
     calculateTAS |-> {"physicsData"},
     getUpVector |-> {"aircraft"},
     calculateSpeedOfSound |-> {"physicsData"},
     convertMsToMach |-> {"physicsData"},
     getFuelBurnRate |-> {"data"},
     updateFuelLevel |-> {"fuelKg"},
     updateAircraftMass |-> {"aircraft", "data"},
     updatePhysicsData |-> {"physics", "aircraft", "data"},
     computeAcceleration |-> {"aircraft", "aircraftData", "physicsData"},
     updatePhysics |-> {"aircraft", "aircraftData"}]

\* the functions that dereference a parameter without a CHECK_PTR on it
UncheckedFunctions == {"fillConstants", "computeAcceleration", "updatePhysics"}

\* the parameters each function passes to CHECK_PTR before its first
\* dereference
CheckedPointers ==
    [f \in DOMAIN RequiredPointers |->
        IF f \in UncheckedFunctions THEN {} ELSE RequiredPointers[f]]

\* what the dereference of a NULL pointer can do
NullDereference == {"crash", "undefined"}

InitPointers ==
    /\ aircraftData \in AircraftSet
    /\ aircraft = initAircraft(aircraftData)
    /\ controls = controlsInit
    /\ globalPhysicsData = InitPhysicsData
    /\ dragConstants = [alpha |-> Zero, kw |-> Zero, Md |-> Zero]
    /\ simulationTime = Zero
    /\ running = TRUE
    /\ rk = NoCall
    /\ ticks = 0
    /\ keys = 0
    /\ threadPc = AtLoopHead
    /\ probe \in UNION { { [fn |-> f, null |-> N, applied |-> FALSE,
                           outcome |-> "none"] :
                          N \in (SUBSET RequiredPointers[f]) \ {{}} } :
                        f \in DOMAIN RequiredPointers }

\* CHECK_PTR logs and returns the sentinel of the function; without it the
\* NULL pointer is dereferenced
CallWithNull ==
    /\ ~probe.applied
    /\ \E o \in IF probe.null \cap CheckedPointers[probe.fn] # {}
                THEN {"sentinel"} ELSE NullDereference :
           probe' = [probe EXCEPT !.applied = TRUE, !.outcome = o]
    /\ UNCHANGED <<aircraft, aircraftData, controls, globalPhysicsData,
                   dragConstants, simulationTime, running, rk, ticks, keys,
                   threadPc>>

NextPointers == CallWithNull

SpecPointers == InitPointers /\ [][NextPointers]_vars

(***************************************************************************)
(* The main loop on degenerate inputs: the aircraft record and the         *)
(* velocity at the start are drawn from sets that include zero mass and    *)
(* zero velocity                                                           *)
(***************************************************************************)
InitDegenerate ==
    /\ aircraftData \in DegenerateData
    /\ aircraft \in { [initAircraft(aircraftData) EXCEPT
                           !.vx = v.x, !.vy = v.y, !.vz = v.z,
                           !.fuel = TestFuel,
                           !.hasAfterburner = (aircraftData.afterburnerThrust # 0)] :
                      v \in DegenerateVelocities }
    /\ controls = controlsInit
    /\ globalPhysicsData = InitPhysicsData
    /\ dragConstants = [alpha |-> Zero, kw |-> Zero, Md |-> Zero]
    /\ simulationTime = Zero
    /\ running = TRUE
    /\ rk = NoCall
    /\ ticks = 0
    /\ keys = 0
    /\ threadPc = AtLoopHead
    /\ probe = NoProbe

NextDegenerate == \E deltaTime \in DeltaTimes : Tick(deltaTime)

SpecDegenerate == InitDegenerate /\ [][NextDegenerate]_vars

(***************************************************************************)
(* The two threads statement by statement: the input thread runs the       *)
(* statements of adjustValues one at a time, the main loop copies the      *)
(* shared controls and then calls updatePhysics, and the statements of     *)
(* the two threads interleave freely since controls.c takes no lock.       *)
(* updatePhysics reads the aircraft state only, so a statement of the      *)
(* input thread during the call has the effect of the same statement       *)
(* between the copy and the call                                           *)
(***************************************************************************)
ThrottleSettings == { Zero, One, THROTTLE_LIMIT }

ControlKeys == { "z", "x", "s", "other" }

InitControls ==
    /\ aircraftData \in AircraftSet
    /\ aircraft = [initAircraft(aircraftData) EXCEPT
                       !.fuel = TestFuel,
                       !.hasAfterburner = (aircraftData.afterburnerThrust # 0)]
    /\ controls \in { setAfterburner([controlsInit EXCEPT !.throttle = t]) :
                       t \in ThrottleSettings }
    /\ globalPhysicsData = InitPhysicsData
    /\ dragConstants = [alpha |-> Zero, kw |-> Zero, Md |-> Zero]
    /\ simulationTime = Zero
    /\ running = TRUE
    /\ rk = NoCall
    /\ ticks = 0
    /\ keys = 0
    /\ threadPc = AtLoopHead
    /\ probe = NoProbe

\* main: deltaTime, simulationTime and the copy of the controls
MainCopy(deltaTime) ==
    /\ running
    /\ ticks < MaxTicks
    /\ threadPc.main = "copy"
    /\ simulationTime' = RAdd(simulationTime, deltaTime)
    /\ aircraft' = CopyControls(aircraft, controls)
    /\ threadPc' = [threadPc EXCEPT !.main = "physics", !.deltaTime = deltaTime]
    /\ UNCHANGED <<aircraftData, controls, globalPhysicsData, dragConstants,
                   running, rk, ticks, keys, probe>>

\* main: updatePhysics and updateAircraftState
MainPhysics ==
    /\ threadPc.main = "physics"
    /\ \E r \in { updatePhysics(aircraft, threadPc.deltaTime, simulationTime,
                                 aircraftData, globalPhysicsData,
                                 dragConstants) } :
           /\ aircraft' = updateAircraftState(r.aircraft, threadPc.deltaTime)
           /\ globalPhysicsData' = r.physicsData
           /\ rk' = r.locals
    /\ \E quit \in BOOLEAN : running' = (~RLe(aircraft.y, Zero) /\ ~quit)
    /\ ticks' = ticks + 1
    /\ threadPc' = [threadPc EXCEPT !.main = "copy", !.deltaTime = Zero]
    /\ UNCHANGED <<aircraftData, controls, dragConstants, simulationTime,
                   keys, probe>>

InputStatement(from, to, c) ==
    /\ threadPc.input = from
    /\ controls' = c
    /\ threadPc' = [threadPc EXCEPT !.input = to]
    /\ UNCHANGED <<aircraft, aircraftData, globalPhysicsData, dragConstants,
                   simulationTime, running, rk, ticks, probe>>

InputSwitch(key) ==
    /\ running
    /\ keys < MaxKeys
    /\ keys' = keys + 1
    /\ InputStatement("read", "clampLow", adjustSwitch(controls, key))

InputClampLow ==
    /\ UNCHANGED keys
    /\ InputStatement("clampLow", "clampHigh", clampThrottleLow(controls))

InputClampHigh ==
    /\ UNCHANGED keys
    /\ InputStatement("clampHigh", "afterburner", clampThrottleHigh(controls))

InputAfterburner ==
    /\ UNCHANGED keys
    /\ InputStatement("afterburner", "read", setAfterburner(controls))

InputThread ==
    \/ \E key \in ControlKeys : InputSwitch(key)
    \/ InputClampLow
    \/ InputClampHigh
    \/ InputAfterburner

NextControls ==
    \/ \E deltaTime \in DeltaTimes : MainCopy(deltaTime)
    \/ MainPhysics
    \/ InputThread

SpecControls == InitControls /\ [][NextControls]_vars

(***************************************************************************)
(* adjustValues on its own: the controls are drawn from the states that    *)
(* completed adjustValues calls leave behind, a throttle of a whole number *)
(* of steps from 0 to the limit with its afterburner flag, and the         *)
(* function is applied once to a key                                       *)
(***************************************************************************)
ReachableControls ==
    { setAfterburner([controlsInit EXCEPT !.throttle = RMul(I(n), throttleStep)]) :
      n \in 0..Trunc(RDiv(THROTTLE_LIMIT, throttleStep)) }

InitKeys ==
    /\ aircraftData \in AircraftSet
    /\ aircraft = [initAircraft(aircraftData) EXCEPT
                       !.fuel = TestFuel,
                       !.hasAfterburner = (aircraftData.afterburnerThrust # 0)]
    /\ controls \in ReachableControls
    /\ globalPhysicsData = InitPhysicsData
    /\ dragConstants = [alpha |-> Zero, kw |-> Zero, Md |-> Zero]
    /\ simulationTime = Zero
    /\ running = TRUE
    /\ rk = NoCall
    /\ ticks = 0
    /\ keys = 0
    /\ threadPc = AtLoopHead
    /\ \E key \in Keys :
           probe = [key |-> key, before |-> controls, applied |-> FALSE]

ApplyKey ==
    /\ ~probe.applied
    /\ controls' = adjustValues(controls, probe.key)
    /\ probe' = [probe EXCEPT !.applied = TRUE]
    /\ UNCHANGED <<aircraft, aircraftData, globalPhysicsData, dragConstants,
                   simulationTime, running, rk, ticks, keys, threadPc>>

NextKeys == ApplyKey

SpecKeys == InitKeys /\ [][NextKeys]_vars

(***************************************************************************)
(* The afterburner selection of one tick on its own: a throttle is drawn   *)
(* and the fuel burn rate of updatePhysics and the thrust of               *)
(* updatePhysicsData are computed from it, at sea level density and rest   *)
(***************************************************************************)
\* throttles in [0, 1.01]: the whole steps, a value half a step below the
\* limit, and 1.0099994, the float that 101 presses of x and then 101
\* presses of z reach from 1.0
ThrottleValues ==
    { c.throttle : c \in ReachableControls }
        \cup { <<201, 200>>, <<5049997, 5000000>> }

InitAfterburner ==
    /\ aircraftData \in AircraftSet
    /\ aircraft = [initAircraft(aircraftData) EXCEPT
                       !.fuel = TestFuel,
                       !.hasAfterburner = (aircraftData.afterburnerThrust # 0)]
    /\ controls = controlsInit
    /\ globalPhysicsData = InitPhysicsData
    /\ dragConstants = [alpha |-> Zero, kw |-> Zero, Md |-> Zero]
    /\ simulationTime = Zero
    /\ running = TRUE
    /\ rk = NoCall
    /\ ticks = 0
    /\ keys = 0
    /\ threadPc = AtLoopHead
    /\ probe \in { [throttle |-> t, applied |-> FALSE,
                    fuelAfterburner |-> FALSE, fuelBurnRate |-> Zero,
                    thrustAfterburner |-> FALSE, thrust |-> Zero] :
                   t \in ThrottleValues }

ApplyAfterburner ==
    /\ ~probe.applied
    /\ \E percentControl \in { Trunc(RMul(probe.throttle, I(100))) } :
           probe' = [probe EXCEPT
                        !.applied = TRUE,
                        !.fuelAfterburner = FuelBurnAfterburner(probe.throttle),
                        !.fuelBurnRate =
                            getFuelBurnRate(aircraftData, probe.throttle),
                        !.thrustAfterburner = ThrustAfterBurnerOn(percentControl),
                        !.thrust =
                            calculateThrust(
                                aircraftData.thrust,
                                aircraftData.afterburnerThrust, percentControl,
                                [globalPhysicsData EXCEPT
                                     !.airDensity = airDensityAtSeaLevel])]
    /\ UNCHANGED <<aircraft, aircraftData, controls, globalPhysicsData,
                   dragConstants, simulationTime, running, rk, ticks, keys,
                   threadPc>>

NextAfterburner == ApplyAfterburner

SpecAfterburner == InitAfterburner /\ [][NextAfterburner]_vars

(***************************************************************************)
(* Two runs of the main loop side by side, on the same aircraft data, keys *)
(* and frame times.  The second run, kept in probe with its own frame      *)
(* cache, starts from another current mass and another positive fuel load  *)
(***************************************************************************)
OtherFuels == { I(40), I(300) }

OtherMasses(data) == { data.mass, RMul(data.mass, I(2)) }

InitTwoRuns ==
    /\ aircraftData \in AircraftSet
    /\ aircraft = [initAircraft(aircraftData) EXCEPT
                       !.fuel = TestFuel,
                       !.hasAfterburner = (aircraftData.afterburnerThrust # 0)]
    /\ controls = controlsInit
    /\ globalPhysicsData = InitPhysicsData
    /\ dragConstants = [alpha |-> Zero, kw |-> Zero, Md |-> Zero]
    /\ simulationTime = Zero
    /\ running = TRUE
    /\ rk = NoCall
    /\ ticks = 0
    /\ keys = 0
    /\ threadPc = AtLoopHead
    /\ probe \in { [aircraft |-> [aircraft EXCEPT !.currentMass = m,
                                                  !.fuel = f],
                    physicsData |-> InitPhysicsData,
                    bothFuelled |-> TRUE] :
                   m \in OtherMasses(aircraftData), f \in OtherFuels }

\* one iteration of the main loop in both runs
TickTwoRuns(deltaTime) ==
    /\ running
    /\ ticks < MaxTicks
    /\ LET crashed == RLe(aircraft.y, Zero)
           t == RAdd(simulationTime, deltaTime)
       IN  \E r \in { updatePhysics(CopyControls(aircraft, controls),
                                    deltaTime, t, aircraftData,
                                    globalPhysicsData, dragConstants) },
              o \in { updatePhysics(CopyControls(probe.aircraft, controls),
                                    deltaTime, t, aircraftData,
                                    probe.physicsData, dragConstants) } :
               /\ simulationTime' = t
               /\ aircraft' = updateAircraftState(r.aircraft, deltaTime)
               /\ globalPhysicsData' = r.physicsData
               /\ rk' = r.locals
               /\ probe' = [aircraft |->
                                updateAircraftState(o.aircraft, deltaTime),
                            physicsData |-> o.physicsData,
                            bothFuelled |->
                                /\ probe.bothFuelled
                                /\ RLt(Zero, aircraft.fuel)
                                /\ RLt(Zero, probe.aircraft.fuel)]
               /\ \E quit \in BOOLEAN : running' = (~crashed /\ ~quit)
    /\ ticks' = ticks + 1
    /\ UNCHANGED <<aircraftData, controls, dragConstants, keys, threadPc>>

NextTwoRuns ==
    \/ \E deltaTime \in DeltaTimes : TickTwoRuns(deltaTime)
    \/ \E key \in ControlKeys : InputKey(key)

SpecTwoRuns == InitTwoRuns /\ [][NextTwoRuns]_vars

(***************************************************************************)
(* menu.c: the aircraft menu that main runs before the game loop.  A line  *)
(* of the data file is modelled by its kind: "comment" starts with #,      *)
(* "header" holds the text name|, "empty" is a bare newline, "pipes" holds *)
(* nothing but | characters (strtok finds no token), "data" is an aircraft *)
(* record                                                                  *)
(***************************************************************************)
LineKinds == { "comment", "header", "empty", "pipes", "data" }

DataFiles == UNION { [1..n -> LineKinds] : n \in 0..MaxLines }

\* the lines the reading loop sees: the first one is skipped when it is a
\* comment or the header, else the file is rewound
LinesRead(file) ==
    IF file # <<>> /\ file[1] \in { "comment", "header" } THEN Tail(file)
    ELSE file

RECURSIVE CountNames(_)
\* count of the reading loop: empty and comment lines are skipped, and a
\* line without a token is not counted
CountNames(lines) ==
    IF lines = <<>> THEN 0
    ELSE (IF Head(lines) \in { "empty", "comment", "pipes" } THEN 0 ELSE 1)
             + CountNames(Tail(lines))

\* *aircraftCount of a call that opened the file
loadAircraftNames(file) == CountNames(LinesRead(file))

\* unsigned int of 32 bits, as <<high half, low half>> of 16 bits each
U32(n) == <<n \div 65536, n % 65536>>

\* (unsigned int)i of an int i
IntToU32(i) ==
    IF i >= 0 THEN U32(i)
    ELSE <<65535 - ((-(i + 1)) \div 65536), 65535 - ((-(i + 1)) % 65536)>>

\* (int)u of an unsigned int u
U32ToInt(u) ==
    IF u[1] < 32768 THEN u[1] * 65536 + u[2]
    ELSE (u[1] - 65536) * 65536 + u[2]

U32Lt(a, b) == a[1] < b[1] \/ (a[1] = b[1] /\ a[2] < b[2])

\* u + 1 and u - 1, modulo 2^32
U32Inc(u) ==
    IF u[2] < 65535 THEN <<u[1], u[2] + 1>>
    ELSE <<(u[1] + 1) % 65536, 0>>

U32Dec(u) ==
    IF u[2] > 0 THEN <<u[1], u[2] - 1>>
    ELSE <<(u[1] + 65535) % 65536, 65535>>

MenuKeys == { "w", "A", "s", "B", "other" }

\* the data file, and the locals of selectAircraft before its loop
selectAircraftEntry(file, aircraftCount) ==
    [file |-> file,
     aircraftCount |-> aircraftCount,
     selectedIndex |-> U32(0),
     maxIndex |-> U32Dec(IntToU32(aircraftCount)),
     returned |-> FALSE,
     selectedAircraft |-> 0]

\* 's' or the down arrow
MoveDown(menu) ==
    IF U32Lt(menu.selectedIndex, menu.maxIndex)
    THEN [menu EXCEPT !.selectedIndex = U32Inc(@)]
    ELSE menu

\* 'w' or the up arrow
MoveUp(menu) ==
    IF U32Lt(U32(0), menu.selectedIndex)
    THEN [menu EXCEPT !.selectedIndex = U32Dec(@)]
    ELSE menu

\* main has loaded the names and selectAircraft is about to read a key
InitMenu ==
    /\ aircraftData \in AircraftSet
    /\ aircraft = initAircraft(aircraftData)
    /\ controls = controlsInit
    /\ globalPhysicsData = InitPhysicsData
    /\ dragConstants = [alpha |-> Zero, kw |-> Zero, Md |-> Zero]
    /\ simulationTime = Zero
    /\ running = TRUE
    /\ rk = NoCall
    /\ ticks = 0
    /\ keys = 0
    /\ threadPc = AtLoopHead
    /\ probe \in { selectAircraftEntry(file, loadAircraftNames(file)) :
                   file \in DataFiles }

\* one pass of the loop of selectAircraft with a key other than Enter
MenuKey(key) ==
    /\ ~probe.returned
    /\ keys < MaxPresses
    /\ probe' = IF key \in { "w", "A" } THEN MoveUp(probe)
                ELSE IF key \in { "s", "B" } THEN MoveDown(probe)
                ELSE probe
    /\ keys' = keys + 1
    /\ UNCHANGED <<aircraft, aircraftData, controls, globalPhysicsData,
                   dragConstants, simulationTime, running, rk, ticks,
                   threadPc>>

\* Enter: selectAircraft returns (int)selectedIndex to main
MenuEnter ==
    /\ ~probe.returned
    /\ probe' = [probe EXCEPT !.returned = TRUE,
                              !.selectedAircraft = U32ToInt(probe.selectedIndex)]
    /\ UNCHANGED <<aircraft, aircraftData, controls, globalPhysicsData,
                   dragConstants, simulationTime, running, rk, ticks, keys,
                   threadPc>>

NextMenu ==
    \/ \E key \in MenuKeys : MenuKey(key)
    \/ MenuEnter

SpecMenu == InitMenu /\ [][NextMenu]_vars

(***************************************************************************)
(* Properties                                                              *)
(***************************************************************************)
\* the fuel mass the latest updatePhysics call burnt: rate * deltaTime
FuelBurned ==
    RMul(getFuelBurnRate(aircraftData, aircraft.controls.throttle), rk.deltaTime)

\* C1: the fuel level is never negative, and a tick whose burn exceeds the
\* fuel at entry leaves the fuel at exactly 0
C1_FuelNeverNegative ==
    /\ RLe(Zero, aircraft.fuel)
    /\ (rk.called /\ RLt(rk.fuelAtEntry, FuelBurned)) => aircraft.fuel = Zero

C1_Witness ==
    /\ rk.called
    /\ RLt(Zero, rk.fuelAtEntry)
    /\ RLt(rk.fuelAtEntry, FuelBurned)
    /\ aircraft.fuel = Zero

\* C2: the current mass is never below the empty mass, and a tick whose burn
\* would take it below leaves it exactly at the empty mass
C2_MassNeverBelowEmpty ==
    /\ RLe(aircraftData.mass, aircraft.currentMass)
    /\ (rk.called /\ RLt(RSub(rk.massAtEntry, FuelBurned), aircraftData.mass))
           => aircraft.currentMass = aircraftData.mass

C2_Witness ==
    /\ rk.called
    /\ RLt(aircraftData.mass, rk.massAtEntry)
    /\ RLt(RSub(rk.massAtEntry, FuelBurned), aircraftData.mass)
    /\ aircraft.currentMass = aircraftData.mass

\* C3: in every state the current mass is the empty mass plus the fuel
C3_MassIsEmptyPlusFuel ==
    aircraft.currentMass = RAdd(aircraftData.mass, aircraft.fuel)

\* the rated thrust of the engine mode the probed call selects
SelectedThrust ==
    IF probe.percentControl > 100 THEN aircraftData.afterburnerThrust
    ELSE aircraftData.thrust

\* Tsel * (airDensity / airDensityAtSeaLevel) * (p / 100) * (1 + 0.3 * Mach)
ScaledThrust ==
    LET p == IF probe.percentControl > 100 THEN 100 ELSE probe.percentControl
    IN  RMul(RMul(I(SelectedThrust), RDiv(probe.airDensity, <<49, 40>>)),
             RMul(<<p, 100>>, RAdd(One, RMul(<<3, 10>>, probe.machNumber))))

\* C4: calculateThrust never returns more than the rated thrust of the
\* selected engine mode
C4_ThrustWithinRating ==
    probe.applied => RLe(probe.result, I(SelectedThrust))

C4_Witness ==
    /\ probe.applied
    /\ RLt(I(SelectedThrust), ScaledThrust)
    /\ probe.result = I(SelectedThrust)

\* C5: calculateThrust returns the smaller of the selected rated thrust and
\* that thrust scaled by density ratio, throttle percentage (at most 100) and
\* ram recovery
C5_ThrustFormula ==
    probe.applied => RCmp(probe.result[1], probe.result[2],
                          RMin(I(SelectedThrust), ScaledThrust)[1],
                          RMin(I(SelectedThrust), ScaledThrust)[2]) = 0

C5_Witness ==
    /\ probe.applied
    /\ probe.percentControl = 105
    /\ RLt(Zero, probe.result)
    /\ RLt(probe.result, I(aircraftData.afterburnerThrust))

\* C6: in a tick that begins without fuel the thrust force of all four stage
\* accelerations is zero and so is the thrust every updateVelocity call reads
C6_NoThrustWithoutFuel ==
    (rk.called /\ RLe(rk.fuelAtEntry, Zero))
        => \A i \in 1..4 : /\ rk.thrustForce[i] = ZeroVec
                           /\ rk.velocityThrust[i] = Zero

C6_Witness ==
    /\ rk.called
    /\ RLe(rk.fuelAtEntry, Zero)
    /\ RLt(Zero, rk.deltaTime)
    /\ RLt(Zero, rk.thrustAtK1)

\* the tick began with fuel and burnt all of it
FuelUsedUp ==
    /\ rk.called
    /\ RLt(Zero, rk.fuelAtEntry)
    /\ RLe(rk.fuelAtEntry, FuelBurned)

\* the thrust vector of magnitude T along the attitude of the aircraft
ThrustVector(T) ==
    Vec(RMul(T, RMul(Cosf(aircraft.pitch), Cosf(aircraft.yaw))),
        RMul(T, Sinf(aircraft.pitch)),
        RMul(T, RMul(Cosf(aircraft.pitch), Sinf(aircraft.yaw))))

\* C7 as stated: in the tick that uses up the fuel the thrust force of the
\* stage accelerations is zero
C7_ThrustZeroInDepletingTick ==
    FuelUsedUp => \A i \in 1..4 : rk.thrustForce[i] = ZeroVec

\* C7 as the code has it: the tick that uses up the fuel still flies on the
\* cached thrust in all four stages and in every updateVelocity call, and
\* ends with the fuel at exactly 0
C7_DepletingTickKeepsThrust ==
    FuelUsedUp => /\ aircraft.fuel = Zero
                  /\ \A i \in 1..4 :
                         /\ rk.thrustForce[i] = ThrustVector(rk.thrustAtK1)
                         /\ rk.velocityThrust[i] = rk.thrustAtK1

C7_Witness ==
    /\ FuelUsedUp
    /\ RLt(Zero, rk.thrustAtK1)
    /\ rk.thrustForce[4].x = rk.thrustAtK1
    /\ aircraft.fuel = Zero

\* v0 + (k1 + 2 k2 + 2 k3 + k4) * deltaTime / 6 of the latest call
RK4Velocity ==
    LET sum == VAdd(VAdd(rk.k1, rk.k4), VScale(VAdd(rk.k2, rk.k3), I(2)))
    IN  VAdd(rk.v0, VScale(sum, RDiv(rk.deltaTime, I(6))))

\* C8: after updatePhysics the velocity is v0 plus the weighted stage sum
C8_VelocityIsRK4Sum ==
    rk.called => Velocity(aircraft) = RK4Velocity

\* C9: with equal stage accelerations the step is the Euler step with k1,
\* and at deltaTime = 0 the stages all equal k1 and the velocity is unchanged
C9_EulerEquivalence ==
    rk.called =>
        /\ (rk.k2 = rk.k1 /\ rk.k3 = rk.k1 /\ rk.k4 = rk.k1)
               => Velocity(aircraft) = VAdd(rk.v0, VScale(rk.k1, rk.deltaTime))
        /\ rk.deltaTime = Zero
               => /\ rk.k2 = rk.k1 /\ rk.k3 = rk.k1 /\ rk.k4 = rk.k1
                  /\ Velocity(aircraft) = rk.v0

\* the latest tick was flown level, with fuel and a fresh frame cache
LevelFlight ==
    /\ rk.called
    /\ rk.refreshed
    /\ aircraft.yaw = Zero /\ aircraft.pitch = Zero /\ aircraft.roll = Zero
    /\ rk.v0.y = Zero /\ rk.v0.z = Zero
    /\ RLt(Zero, rk.v0.x)
    /\ RLt(Zero, rk.fuelAtEntry)

\* C10: in level flight the cached lift coefficient is m g / (0.5 rho TAS^2 S),
\* the cached lift is 0.5 rho TAS^2 S C_L straight up, the vertical velocity
\* changes by (Lift - Weight) / mass * deltaTime, and that is 0
C10_LevelFlightLiftCancelsWeight ==
    LevelFlight =>
        LET q == RMul(RMul(<<1, 2>>, globalPhysicsData.airDensity),
                      RMul(RMul(globalPhysicsData.trueAirspeed,
                                globalPhysicsData.trueAirspeed),
                           aircraftData.wingArea))
            W == RMul(aircraftData.mass, <<981, 100>>)
            C_L == RDiv(W, q)
            Lift == RMul(q, globalPhysicsData.liftCoefficient)
        IN  /\ globalPhysicsData.liftCoefficient = C_L
            /\ globalPhysicsData.liftForce = Vec(Zero, Lift, Zero)
            /\ RSub(aircraft.vy, rk.v0.y)
                   = RMul(RDiv(RSub(Lift, W), aircraftData.mass), rk.deltaTime)
            /\ aircraft.vy = Zero

C10_Witness ==
    /\ LevelFlight
    /\ RLt(Zero, rk.deltaTime)
    /\ RLt(Zero, globalPhysicsData.liftForce.y)
    /\ aircraft.vy = Zero

\* the cache has been rebuilt by updatePhysicsData at least once:
\* tropopauseAltitude is the first field a rebuild writes and it never writes 0
CacheBuilt(pd) == pd.tropopauseAltitude = getTropopause

\* the stamp of the cache is within 1e-6 of the simulation time
StampCurrent(pd) ==
    RLe(RAbs(RSub(pd.lastSimulationTime, simulationTime)), <<1, 1000000>>)

\* C11: every updatePhysics call computes k1 on a cache that updatePhysicsData
\* has rebuilt for a stamp within 1e-6 of the simulation time of the call,
\* the first call after the start included
C11_CacheValidAtK1 ==
    rk.called => (CacheBuilt(rk.cacheAtK1) /\ StampCurrent(rk.cacheAtK1))

\* C12: updatePhysics rebuilds the cache exactly when the simulation time
\* differs from the stamp by more than 1e-6, and a call that follows a call
\* with the same simulation time rebuilds nothing and computes k1 on the
\* cache the earlier call left
C12_RebuildOncePerTimestamp ==
    [][(\E deltaTime \in DeltaTimes : Tick(deltaTime))
          => /\ rk'.refreshed
                  <=> RLt(<<1, 1000000>>,
                          RAbs(RSub(globalPhysicsData.lastSimulationTime,
                                    simulationTime')))
             /\ (rk.called /\ simulationTime' = simulationTime)
                    => /\ ~rk'.refreshed
                       /\ rk'.cacheAtK1 = globalPhysicsData]_vars

\* a second call at the time of the first, with a pitch the cache of the
\* first call does not have
C12_Witness ==
    /\ ticks = 2
    /\ rk.called
    /\ ~rk.refreshed
    /\ CacheBuilt(rk.cacheAtK1)
    /\ rk.cacheAtK1.pitchDegrees # convertRadiansToDeg(aircraft.pitch)

\* C13: getTemperatureKelvin returns exactly 216.65 K at the tropopause
\* (11000 m), the value it returns for every altitude above it
C13_TemperatureContinuousAtTropopause ==
    (probe.applied /\ RLe(I(11000), probe.altitude))
        => probe.temperatureKelvin = <<4333, 20>>

C13_Witness ==
    /\ probe.applied
    /\ probe.altitude = I(11000)
    /\ probe.altitude = getTropopause
    /\ probe.temperatureKelvin = <<4333, 20>>

\* C14: every physics function called with a NULL required pointer returns
\* its sentinel (or returns without effect) instead of dereferencing it
C14_NullPointerReturnsSentinel ==
    probe.applied => probe.outcome = "sentinel"

\* C15: with finite inputs that include zero velocity and zero mass, the
\* true airspeed, the flight path angle and the lift coefficient of the cache
\* and the velocity after updatePhysics are finite
C15_NoInfNoNaN ==
    rk.called
        => /\ IsFinite(rk.cacheAtK1.trueAirspeed)
           /\ IsFinite(rk.cacheAtK1.flightPathAngle)
           /\ IsFinite(rk.cacheAtK1.liftCoefficient)
           /\ IsFinite(aircraft.vx) /\ IsFinite(aircraft.vy) /\ IsFinite(aircraft.vz)

\* C16: whatever way the statements of adjustValues interleave with the main
\* loop's read of the shared controls, the throttle copied into
\* aircraft.controls.throttle and used by updatePhysics lies in [0.0, 1.01]
C16_ThrottleUsedInRange ==
    (threadPc.main = "physics" \/ rk.called) =>
        /\ RLe(Zero, aircraft.controls.throttle)
        /\ RLe(aircraft.controls.throttle, THROTTLE_LIMIT)

\* the control values the physics core reads: fields of the aircraft state
ControlsRead(ac) ==
    <<ac.yaw, ac.pitch, ac.roll, ac.controls.throttle>>

Untouched(ac, p) ==
    [ac EXCEPT !.vx = Zero, !.vy = Zero, !.vz = Zero,
               !.fuel = Zero, !.currentMass = Zero,
               !.x = p.x, !.y = p.y, !.z = p.z]

\* the position after main's updateAircraftState when updatePhysics has left
\* the position at entry alone
PositionAfterTick ==
    Vec(RAdd(rk.aircraftAtEntry.x, RMul(aircraft.vx, rk.deltaTime)),
        RAdd(rk.aircraftAtEntry.y, RMul(aircraft.vy, rk.deltaTime)),
        RAdd(rk.aircraftAtEntry.z, RMul(aircraft.vz, rk.deltaTime)))

\* the aircraft state after a tick against the state at entry of the call
PhysicsWritesVelocityFuelMassOnly ==
    rk.called =>
        /\ Untouched(aircraft, rk.aircraftAtEntry)
               = Untouched(rk.aircraftAtEntry, rk.aircraftAtEntry)
        /\ Vec(aircraft.x, aircraft.y, aircraft.z) = PositionAfterTick
        /\ rk.v0 = Velocity(rk.aircraftAtEntry)
        /\ RLt(Zero, rk.fuelAtEntry) =>
               \A i \in 2..4 : rk.thrustForce[i] = rk.thrustForce[1]

C19_DragConstantsFilled ==
    rk.called =>
        /\ dragConstants.alpha = aircraftData.alpha
        /\ dragConstants.kw = aircraftData.kw
        /\ dragConstants.Md = aircraftData.Md

\* C20: during one updatePhysics call nothing but updatePhysicsData writes the
\* cache: the cache after the call is the cache k1 was given, and the stages
\* k2, k3, k4 and the trailing updateVelocity read the thrust k1 was given
C20_CacheFrozenDuringCall ==
    rk.called =>
        /\ globalPhysicsData = rk.cacheAtK1
        /\ \A i \in 1..4 : rk.velocityThrust[i] = rk.cacheAtK1.thrust

\* C21: after an updatePhysicsData call that did not return early, the fields
\* of the cache hold values computed in that call from the altitude and the
\* aircraft state at entry: the atmosphere values, pressure among them, the
\* speeds and the orientation, none kept from initialisation
C21_EveryFieldRecomputed ==
    (rk.called /\ rk.refreshed) =>
        /\ rk.cacheAtK1.tropopauseAltitude = getTropopause
        /\ rk.cacheAtK1.temperatureKelvin
               = getTemperatureKelvin(rk.aircraftAtEntry.y, rk.cacheAtK1)
        /\ rk.cacheAtK1.airDensity
               = getAirDensity(rk.aircraftAtEntry.y, rk.cacheAtK1)
        /\ rk.cacheAtK1.velocityMagnitude
               = calculateMagnitude(rk.v0.x, rk.v0.y, rk.v0.z)
        /\ rk.cacheAtK1.pitchDegrees
               = convertRadiansToDeg(rk.aircraftAtEntry.pitch)
        /\ rk.cacheAtK1.pressure = getPressureAtAltitude(rk.cacheAtK1)

\* caches whose every field holds a value no computation produced: NaN in
\* one, 7 in the other
StaleCaches ==
    { [f \in DOMAIN InitPhysicsData |->
           IF f \in {"windVector", "upVector", "liftForce", "dragForce"}
           THEN Vec(v, v, v)
           ELSE v] : v \in { NaN, I(7) } }

\* the refresh of the latest call redone on the cache p; pressure, which no
\* computation of the refresh reads or writes, is taken from the real cache
RefreshFrom(p) ==
    [updatePhysicsData(p, rk.aircraftAtEntry.y, rk.aircraftAtEntry,
                       aircraftData, simulationTime, dragConstants)
        EXCEPT !.pressure = rk.cacheAtK1.pressure]

C23_NoStampAfterEarlyReturn ==
    (rk.called /\ rk.refreshed
        /\ (IsNaN(rk.aircraftAtEntry.y) \/ IsNaN(simulationTime))) =>
        rk.cacheAtK1.lastSimulationTime # simulationTime

\* v0 + step * k
StageVelocity(k, step) == VAdd(rk.v0, VScale(k, step))

\* C24: the stage accelerations k2, k3, k4 are evaluated at the standard RK4
\* stage velocities v0 + 0.5*dt*k1, v0 + 0.5*dt*k2 and v0 + dt*k3: the
\* updateVelocity call on the scratch copy leaves the velocity that is passed
\* to computeAcceleration as it was
C24_StandardStageVelocities ==
    rk.called =>
        /\ rk.stageVelocity[1]
               = StageVelocity(rk.k1, RMul(rk.deltaTime, <<1, 2>>))
        /\ rk.stageVelocity[2]
               = StageVelocity(rk.k2, RMul(rk.deltaTime, <<1, 2>>))
        /\ rk.stageVelocity[3] = StageVelocity(rk.k3, rk.deltaTime)

\* C25: after updatePhysics has returned, the angle of attack stored in the
\* aircraft state is the angle of attack of the final velocity of that tick
C25_AoAFollowsVelocity ==
    rk.called => aircraft.AoA = calculateAoA(aircraft)

\* -totalDrag * r / |r|, zero below the guard
DragAlong(r, totalDrag) ==
    DragForce(r, calculateMagnitude(r.x, r.y, r.z), totalDrag)

\* C26: the drag force of the acceleration evaluation k1 is -totalDrag * r/|r|
\* for the wind-relative velocity r, the TAS vector less the cached wind
\* vector, so that the acceleration depends on the wind
C26_DragAlongRelativeWind ==
    (rk.called /\ rk.refreshed) =>
        rk.dragForce[1]
            = DragAlong(WindRelativeVelocity(rk.aircraftAtEntry, rk.cacheAtK1),
                        rk.cacheAtK1.totalDrag)

C28_AfterburnerConsistent ==
    probe.applied =>
        /\ probe.fuelAfterburner <=> probe.thrustAfterburner
        /\ probe.fuelAfterburner =>
               /\ probe.fuelBurnRate = aircraftData.afterburnerFuelBurn
               /\ probe.thrust = I(aircraftData.afterburnerThrust)

\* C29: the velocity updatePhysics produces depends neither on currentMass nor
\* on the amount of fuel left while there is some: two runs that differ only
\* in currentMass and in a positive fuel load have the same velocity after
\* every tick that both entered with fuel
C29_VelocityIgnoresMassAndFuel ==
    probe.bothFuelled => Velocity(probe.aircraft) = Velocity(aircraft)

C29_Witness ==
    /\ probe.bothFuelled
    /\ ticks = MaxTicks
    /\ rk.called
    /\ RLt(Zero, rk.deltaTime)
    /\ Velocity(aircraft) # rk.v0
    /\ probe.aircraft.currentMass # aircraft.currentMass
    /\ probe.aircraft.fuel # aircraft.fuel
    /\ RLt(Zero, aircraft.fuel)
    /\ RLt(Zero, probe.aircraft.fuel)

\* C30: after any presses of the up and down keys and then Enter,
\* selectAircraft returns an index i with 0 <= i < aircraftCount, for every
\* aircraftCount a successful loadAircraftNames reports, zero included
C30_SelectedIndexInRange ==
    probe.returned =>
        /\ 0 <= probe.selectedAircraft
        /\ probe.selectedAircraft < probe.aircraftCount

====
